---- MODULE Spec2Model ----
(***************************************************************************)
(* XNBNode (main.js): the save-direction pass onPresave (tilemap header    *)
(* transcoding, image extraction), the load-direction pass onPostload      *)
(* (image reinjection by path) and the batch driver applyOrRecurse.        *)
(*                                                                         *)
(* JavaScript values are modelled as nodes [k, v, x]:                      *)
(*   k = "num"   v = a number                                              *)
(*   k = "str"   v = a string whose characters are never inspected         *)
(*   k = "text"  v = a string as a sequence of UTF-16 code units           *)
(*   k = "chars" v = a string as a sequence of one-character strings       *)
(*   k = "blob"  v = the bytes of a Buffer                                 *)
(*   k = "arr"   v = the elements of an Array                              *)
(*   k = "map"   v = the own properties of a plain object, as a sequence   *)
(*               of <<key, node>> pairs in insertion order                 *)
(*   k = "undef" the value undefined                                       *)
(*   k = "builtin" an object reached through the prototype chain           *)
(* x = the named (non-index) own properties of an Array or a Buffer.       *)
(* Property keys and paths are sequences of one-character strings.         *)
(***************************************************************************)
EXTENDS Integers, Sequences, FiniteSets, TLC

VARIABLES
    pc,        \* position of the file job / of the driver
    doc,       \* the Document: [content, extractedImages]
    orig,      \* the content as decoded, before any pass touched it
    files,     \* sidecar files written so far, as <<name, contents>> pairs
    proto,     \* properties written onto objects of the prototype chain
    err,       \* the error the last pass threw ("none" when it returned)
    seg,       \* tilemap specification: the description the segment encodes
    run,       \* driver: the command (mode) and what the input path is
    batch,     \* driver: the files the walker yields, in order
    idx,       \* driver: number of 'file' events delivered so far
    log        \* driver: what became of each delivered file

vars == <<pc, doc, orig, files, proto, err, seg, run, batch, idx, log>>

---------------------------------------------------------------------------
(* Strings *)

DATA == <<"d", "a", "t", "a">>
TYPE == <<"t", "y", "p", "e">>
WIDTH == <<"w", "i", "d", "t", "h">>
HEIGHT == <<"h", "e", "i", "g", "h", "t">>
PATH == <<"p", "a", "t", "h">>
LENGTH == <<"l", "e", "n", "g", "t", "h">>
TILESHEETS == <<"t", "i", "l", "e", "S", "h", "e", "e", "t", "s">>
CONSTRUCTOR == <<"c", "o", "n", "s", "t", "r", "u", "c", "t", "o", "r">>
DOT == "."

Digits == <<"0", "1", "2", "3", "4", "5", "6", "7", "8", "9">>

\* Names every object inherits from Object.prototype (a representative).
ProtoNames == {CONSTRUCTOR}

RECURSIVE Dec(_)
\* Number -> decimal string, as `path + i` converts the index i.
Dec(n) == IF n < 10 THEN <<Digits[n + 1]>> ELSE Dec(n \div 10) \o <<Digits[(n % 10) + 1]>>

DigitVal(c) == CHOOSE d \in 0..9 : Digits[d + 1] = c

IsDigit(c) == \E d \in 1..10 : Digits[d] = c

\* A canonical array index: the keys for which object[key] is an element and
\* which for...in enumerates first, in ascending numeric order.
IsIndexKey(key) ==
    /\ key # <<>>
    /\ \A i \in 1..Len(key) : IsDigit(key[i])
    /\ (Len(key) = 1 \/ key[1] # "0")

RECURSIVE KeyNum(_)
KeyNum(key) ==
    IF key = <<>> THEN 0
    ELSE 10 * KeyNum(SubSeq(key, 1, Len(key) - 1)) + DigitVal(key[Len(key)])

RECURSIVE Split(_)
\* String.prototype.split('.'): always at least one part.
Split(s) ==
    IF \A i \in 1..Len(s) : s[i] # DOT THEN <<s>>
    ELSE LET d == CHOOSE i \in 1..Len(s) : s[i] = DOT /\ \A j \in 1..(i - 1) : s[j] # DOT
         IN <<SubSeq(s, 1, d - 1)>> \o Split(SubSeq(s, d + 1, Len(s)))

RECURSIVE Join(_)
\* Array.prototype.join('.')
Join(parts) ==
    IF parts = <<>> THEN <<>>
    ELSE IF Len(parts) = 1 THEN parts[1]
    ELSE parts[1] \o <<DOT>> \o Join(Tail(parts))

---------------------------------------------------------------------------
(* Values *)

Num(n) == [k |-> "num", v |-> n, x |-> <<>>]
Str(s) == [k |-> "str", v |-> s, x |-> <<>>]
Text(u) == [k |-> "text", v |-> u, x |-> <<>>]
Chars(c) == [k |-> "chars", v |-> c, x |-> <<>>]
Blob(b) == [k |-> "blob", v |-> b, x |-> <<>>]
Arr(items) == [k |-> "arr", v |-> items, x |-> <<>>]
Map(pairs) == [k |-> "map", v |-> pairs, x |-> <<>>]
Undef == [k |-> "undef", v |-> 0, x |-> <<>>]
Builtin == [k |-> "builtin", v |-> 0, x |-> <<>>]

\* The named own properties of a node, as pairs.
Props(o) == IF o.k = "map" THEN o.v ELSE IF o.k \in {"arr", "blob"} THEN o.x ELSE <<>>

HasKey(pairs, key) == \E i \in 1..Len(pairs) : pairs[i][1] = key

Lookup(pairs, key) == pairs[CHOOSE i \in 1..Len(pairs) : pairs[i][1] = key][2]

HasOwn(o, key) ==
    \/ HasKey(Props(o), key)
    \/ o.k \in {"arr", "blob"} /\ IsIndexKey(key) /\ KeyNum(key) < Len(o.v)
    \/ o.k \in {"arr", "blob"} /\ key = LENGTH

\* object[key] for an object that is not undefined.
Get(o, key) ==
    IF o.k \in {"arr", "blob"} /\ IsIndexKey(key) /\ KeyNum(key) < Len(o.v)
        THEN IF o.k = "arr" THEN o.v[KeyNum(key) + 1] ELSE Num(o.v[KeyNum(key) + 1])
    ELSE IF o.k \in {"arr", "blob"} /\ key = LENGTH THEN Num(Len(o.v))
    ELSE IF HasKey(Props(o), key) THEN Lookup(Props(o), key)
    ELSE IF key \in ProtoNames THEN Builtin
    ELSE Undef

SetPairs(pairs, key, val) ==
    IF HasKey(pairs, key)
        THEN [i \in 1..Len(pairs) |-> IF pairs[i][1] = key THEN <<key, val>> ELSE pairs[i]]
    ELSE Append(pairs, <<key, val>>)

\* object[key] = val on a plain object, an Array or a Buffer (named key, or
\* an existing element of an Array).
Set(o, key, val) ==
    IF o.k = "map" THEN [o EXCEPT !.v = SetPairs(o.v, key, val)]
    ELSE IF o.k = "arr" /\ IsIndexKey(key) /\ KeyNum(key) < Len(o.v)
        THEN [o EXCEPT !.v[KeyNum(key) + 1] = val]
    ELSE IF o.k \in {"arr", "blob"} THEN [o EXCEPT !.x = SetPairs(o.x, key, val)]
    ELSE o

RECURSIVE DelPairs(_, _)
DelPairs(pairs, key) ==
    IF pairs = <<>> THEN <<>>
    ELSE IF Head(pairs)[1] = key THEN Tail(pairs)
    ELSE <<Head(pairs)>> \o DelPairs(Tail(pairs), key)

\* delete object[key] (a named key)
Delete(o, key) ==
    IF o.k = "map" THEN [o EXCEPT !.v = DelPairs(o.v, key)]
    ELSE IF o.k \in {"arr", "blob"} THEN [o EXCEPT !.x = DelPairs(o.x, key)]
    ELSE o

\* typeyaml.isTypeObject: a mapping with exactly the keys type and data.
isTypeObject(o) ==
    /\ o.k = "map"
    /\ Len(o.v) = 2
    /\ {o.v[i][1] : i \in 1..Len(o.v)} = {TYPE, DATA}

RECURSIVE IndexKeysSorted(_)
IndexKeysSorted(keys) ==
    IF keys = {} THEN <<>>
    ELSE LET m == CHOOSE a \in keys : \A b \in keys : KeyNum(a) <= KeyNum(b)
         IN <<m>> \o IndexKeysSorted(keys \ {m})

\* The keys `for (let key in object)` visits on a plain object: the index
\* keys in ascending order, then the other keys in insertion order.
ForInKeys(o) ==
    LET keys == [i \in 1..Len(o.v) |-> o.v[i][1]]
    IN IndexKeysSorted({keys[i] : i \in {j \in 1..Len(keys) : IsIndexKey(keys[j])}})
       \o SelectSeq(keys, LAMBDA key : ~IsIndexKey(key))

---------------------------------------------------------------------------
(* extractImages (main.js 229-261) *)

\* `if(path) path += '.'` followed by `path + i` / `path + key`
childPath(path, key) == (IF path # <<>> THEN path \o <<DOT>> ELSE path) \o key

\* A tagged composite that adds its payload key to the path.
typePathWithKey(path) == childPath(path, DATA)

\* The path a tagged composite hands to its payload: `extractImages(object['data'], path)`
typePath(path) == path

\* The placeholder pushed for a Texture2D node.
newImage(payload, path) ==
    Map(<< <<DATA, Get(payload, DATA)>>, <<WIDTH, Get(payload, WIDTH)>>,
           <<HEIGHT, Get(payload, HEIGHT)>>, <<PATH, Chars(path)>> >>)

\* A deletion that forgets the height.
stripTextureKeepHeight(payload) == Delete(Delete(payload, DATA), WIDTH)

\* delete object.data.data; delete object.data.width; delete object.data.height
stripTexture(payload) == Delete(Delete(Delete(payload, DATA), WIDTH), HEIGHT)

isTexture2D(object) ==
    /\ isTypeObject(object)
    /\ Get(object, TYPE).k = "str"
    /\ Get(object, TYPE).v = "Texture2D"

RECURSIVE extractImages(_, _), extractArray(_, _, _, _), extractKeys(_, _, _, _)
\* Returns [images, object]: the placeholders found and the object as the
\* call leaves it (the code mutates it in place).
extractImages(object, path) ==
    IF object.k \notin {"map", "arr", "blob"} THEN [images |-> <<>>, object |-> object]
    ELSE IF isTexture2D(object) THEN
        [images |-> <<newImage(Get(object, DATA), path)>>,
         object |-> Set(object, DATA, stripTexture(Get(object, DATA)))]
    ELSE IF object.k = "arr" THEN extractArray(object, path, 0, <<>>)
    ELSE IF isTypeObject(object) THEN
        LET r == extractImages(Get(object, DATA), typePath(path))
        IN [images |-> r.images, object |-> Set(object, DATA, r.object)]
    ELSE IF object.k = "map" THEN extractKeys(object, path, ForInKeys(object), <<>>)
    \* a Buffer: for...in visits its bytes, which are numbers
    ELSE [images |-> <<>>, object |-> object]

\* for(let i = 0; i < object.length; i++) images = images.concat(extractImages(object[i], path + i))
extractArray(object, path, i, images) ==
    IF i >= Len(object.v) THEN [images |-> images, object |-> object]
    ELSE LET r == extractImages(object.v[i + 1], childPath(path, Dec(i)))
         IN extractArray([object EXCEPT !.v[i + 1] = r.object], path, i + 1, images \o r.images)

\* for(let key in object) images = images.concat(extractImages(object[key], path + key))
extractKeys(object, path, keys, images) ==
    IF keys = <<>> THEN [images |-> images, object |-> object]
    ELSE LET r == extractImages(Get(object, Head(keys)), childPath(path, Head(keys)))
         IN extractKeys(Set(object, Head(keys), r.object), path, Tail(keys), images \o r.images)

---------------------------------------------------------------------------
(* objectWalk (main.js 263-268) *)

RECURSIVE objectWalk(_, _, _)
\* Returns [r, val, pos]: r = "value" with the value reached and the own keys
\* leading to it from the root, or r = "throw" when the walk reads a
\* property of undefined (TypeError).
objectWalk(object, path, pos) ==
    IF isTypeObject(object) THEN objectWalk(Get(object, DATA), path, Append(pos, DATA))
    ELSE IF path = <<>> THEN [r |-> "value", val |-> object, pos |-> pos]
    ELSE IF object.k = "undef" THEN [r |-> "throw", val |-> Undef, pos |-> pos]
    ELSE LET parts == Split(path)
         IN objectWalk(Get(object, parts[1]), Join(Tail(parts)), Append(pos, parts[1]))

RECURSIVE GetAt(_, _)
GetAt(o, pos) == IF pos = <<>> THEN o ELSE GetAt(Get(o, Head(pos)), Tail(pos))

RECURSIVE SetAt(_, _, _)
\* The root after the node at pos has been replaced by val.
SetAt(o, pos, val) ==
    IF pos = <<>> THEN val
    ELSE Set(o, Head(pos), SetAt(Get(o, Head(pos)), Tail(pos), val))

---------------------------------------------------------------------------
(* Bytes and text *)

\* Buffer.readInt32LE() of a 4-byte slice: two's complement, little endian.
readInt32LE(b) ==
    b[1] + 256 * b[2] + 65536 * b[3]
    + 16777216 * (IF b[4] >= 128 THEN b[4] - 256 ELSE b[4])

\* The 4 bytes writeInt32LE appends.
int32LE(n) ==
    <<n % 256, (n \div 256) % 256, (n \div 65536) % 256, (n \div 16777216) % 256>>

REPLACEMENT == 65533

Cont(b, i, lo, hi) == i <= Len(b) /\ b[i] >= lo /\ b[i] <= hi

\* UTF-16 code units of a code point.
Units(cp) ==
    IF cp < 65536 THEN <<cp>>
    ELSE <<55296 + ((cp - 65536) \div 1024), 56320 + ((cp - 65536) % 1024)>>

RECURSIVE Utf8Decode(_)
\* Buffer.prototype.toString(): UTF-8 decoding, every ill-formed subsequence
\* replaced by U+FFFD. This is the conversion `imgSource + ".png"` applies
\* to the consumed Buffer, and the one extractMap applies to the magic.
Utf8Decode(b) ==
    IF b = <<>> THEN <<>>
    ELSE LET c == b[1]
             need == IF c >= 194 /\ c <= 223 THEN 1
                     ELSE IF c >= 224 /\ c <= 239 THEN 2
                     ELSE IF c >= 240 /\ c <= 244 THEN 3
                     ELSE 0
             lo == IF c = 224 THEN 160 ELSE IF c = 240 THEN 144 ELSE 128
             hi == IF c = 237 THEN 159 ELSE IF c = 244 THEN 143 ELSE 191
             rest(n) == Utf8Decode(SubSeq(b, n, Len(b)))
         IN IF c < 128 THEN <<c>> \o rest(2)
            ELSE IF need = 0 THEN <<REPLACEMENT>> \o rest(2)
            ELSE IF ~Cont(b, 2, lo, hi) THEN <<REPLACEMENT>> \o rest(2)
            ELSE IF need = 1 THEN <<(c - 192) * 64 + (b[2] - 128)>> \o rest(3)
            ELSE IF ~Cont(b, 3, 128, 191) THEN <<REPLACEMENT>> \o rest(3)
            ELSE IF need = 2
                THEN <<(c - 224) * 4096 + (b[2] - 128) * 64 + (b[3] - 128)>> \o rest(4)
            ELSE IF ~Cont(b, 4, 128, 191) THEN <<REPLACEMENT>> \o rest(4)
            ELSE Units((c - 240) * 262144 + (b[2] - 128) * 4096
                       + (b[3] - 128) * 64 + (b[4] - 128)) \o rest(5)

\* buf.toString('utf8', start, end): end is clamped to the length.
toStringUtf8(b, start, end) ==
    Utf8Decode(SubSeq(b, start + 1, IF end < Len(b) THEN end ELSE Len(b)))

\* ".png" as code units
PNG_SUFFIX == <<46, 112, 110, 103>>

\* "tBIN10" as code units (and as bytes)
MAGIC == <<116, 66, 73, 78, 49, 48>>

---------------------------------------------------------------------------
(* reader.BufferConsumer and writer.BufferWriter, and the transcoder of    *)
(* onPresave (main.js 117-182). The transcoder's state st is               *)
(*   buf    the bytes the BufferConsumer has not consumed yet              *)
(*   got    the slice the last consume returned                            *)
(*   out    the BufferWriter's bytes                                       *)
(*   sheets the tileSheets array                                           *)
(*   err    "none", or the error thrown (every later step is then skipped) *)
(***************************************************************************)

newTranscoder(map) ==
    [buf |-> map, got |-> <<0, 0, 0, 0>>, out |-> <<>>, sheets |-> <<>>, err |-> "none"]

fail(st, e) == [st EXCEPT !.err = e, !.got = <<0, 0, 0, 0>>]

\* buffer.consume(n): ReadError when fewer than n bytes remain. A negative n
\* is outside what is modelled ("OutOfModel").
consume(st, n) ==
    IF st.err # "none" THEN st
    ELSE IF n < 0 THEN fail(st, "OutOfModel")
    ELSE IF n > Len(st.buf) THEN fail(st, "ReadError")
    ELSE [st EXCEPT !.got = SubSeq(st.buf, 1, n), !.buf = SubSeq(st.buf, n + 1, Len(st.buf))]

\* out.concat(bytes)
concat(st, bytes) == IF st.err # "none" THEN st ELSE [st EXCEPT !.out = st.out \o bytes]

\* out.writeInt32LE(n)
writeInt32LE(st, n) == concat(st, int32LE(n))

\* out.writeAscii(text): one byte per character
writeAscii(st, units) == concat(st, [i \in 1..Len(units) |-> units[i] % 256])

\* out.concat(buffer.consume(n)), after the consume
copyGot(st) == concat(st, st.got)

\* out.writeInt32LE(buffer.consume(4).readInt32LE()), after the consume
copyInt32(st) == writeInt32LE(st, readInt32LE(st.got))

\* buffer.consume(k) for the k just read by consume(4).readInt32LE()
consumeCounted(st) == consume(st, readInt32LE(st.got))

\* main.js 122-126
skipString(st) == copyGot(consumeCounted(copyInt32(consume(st, 4))))

\* The switch of main.js 138-151 on the tag byte just consumed and copied:
\* a tag other than 0, 1, 2, 3 matches no case.
propertyValue(st, tag) ==
    IF tag = 0 THEN copyGot(consume(st, 1))
    ELSE IF tag = 1 \/ tag = 2 THEN copyGot(consume(st, 4))
    ELSE IF tag = 3 THEN skipString(st)
    ELSE st

\* switch (propertyType[0]), propertyType being the slice just consumed
propertySwitch(st) == IF st.err # "none" THEN st ELSE propertyValue(st, st.got[1])

\* One turn of the loop of main.js 132-152
skipProperty(st) == propertySwitch(copyGot(consume(skipString(st), 1)))

RECURSIVE propertyLoop(_, _)
\* while (numberProperties-- > 0)
propertyLoop(st, numberProperties) ==
    IF st.err # "none" \/ numberProperties <= 0 THEN st
    ELSE propertyLoop(skipProperty(st), numberProperties - 1)

\* The loop of main.js 132-152, run for the count just read and copied
propertiesCounted(st) == propertyLoop(st, readInt32LE(st.got))

\* main.js 128-153
skipProperties(st) == propertiesCounted(copyInt32(consume(st, 4)))

\* A rewrite that writes the length it read, not the new one.
writeSourceOldLength(st, imgSource) ==
    IF st.err # "none" THEN st
    ELSE writeAscii(writeInt32LE([st EXCEPT !.sheets = Append(st.sheets, imgSource)],
                                 Len(st.got)), imgSource)

\* main.js 173-175, for imgSource as main.js 172 made it
writeSource(st, imgSource) ==
    IF st.err # "none" THEN st
    ELSE writeAscii(writeInt32LE([st EXCEPT !.sheets = Append(st.sheets, imgSource)],
                                 Len(imgSource)), imgSource)

\* main.js 172-175 on the Buffer just consumed: imgSource = imgSource + ".png"
rewriteSource(st) == writeSource(st, Utf8Decode(st.got) \o PNG_SUFFIX)

\* main.js 170-175: the image source, rewritten
imageSource(st) == rewriteSource(consumeCounted(consume(st, 4)))

\* One turn of the loop of main.js 166-180
tileSheet(st) ==
    skipProperties(copyGot(consume(imageSource(skipString(skipString(st))), 4 * 2 * 4)))

RECURSIVE tileSheetLoop(_, _)
\* while (numberTileSheets-- > 0)
tileSheetLoop(st, numberTileSheets) ==
    IF st.err # "none" \/ numberTileSheets <= 0 THEN st
    ELSE tileSheetLoop(tileSheet(st), numberTileSheets - 1)

\* The loop of main.js 166-180, run for the count just read and copied
tileSheetsCounted(st) == tileSheetLoop(st, readInt32LE(st.got))

\* A transcoder that stops after the tilesets.
copyNoRest(st) == st

\* main.js 182: out.concat(buffer.buffer)
copyRest(st) == concat(st, st.buf)

\* main.js 117-161: the magic, the map's id, description and properties
mapHeader(map) ==
    skipProperties(skipString(skipString(copyGot(consume(newTranscoder(map), 6)))))

\* main.js 117-182: from the map bytes to the writer's bytes and tileSheets
transcode(map) == copyRest(tileSheetsCounted(copyInt32(consume(mapHeader(map), 4))))

---------------------------------------------------------------------------
(* onPresave (main.js 111-218) and onPostload (main.js 270-288) *)

\* The output (or input) file's directory and base name, extension stripped.
BASE == <<"o", "u", "t", "/", "f">>

\* main.js 106-109
getImageName(baseFile, contentPath) == baseFile \o <<DOT>> \o contentPath \o <<DOT, "p", "n", "g">>

\* main.js 184-185
tbinName(baseFile) == baseFile \o <<DOT, "t", "b", "i", "n">>

\* main.js 220-227. Returns [err, map, content]: map is Undef for null, and
\* content is the object with object.data.data deleted when the magic is
\* there. object.data.data.toString('utf8', 0, 6) throws a TypeError on
\* undefined and a RangeError on a number (the radix); a plain object or an
\* Array converts to text that is not the magic.
extractMap(object) ==
    LET payload == Get(object, DATA)
        data == Get(payload, DATA)
    IN IF payload.k = "undef" \/ data.k = "undef"
           THEN [err |-> "TypeError", map |-> Undef, content |-> object]
       ELSE IF data.k = "num"
           THEN [err |-> "RangeError", map |-> Undef, content |-> object]
       ELSE IF data.k = "blob" /\ toStringUtf8(data.v, 0, 6) = MAGIC
           THEN [err |-> "none", map |-> data,
                 content |-> Set(object, DATA, Delete(payload, DATA))]
       ELSE [err |-> "none", map |-> Undef, content |-> object]

\* main.js 188: data.content.data.tileSheets = tileSheets
setTileSheets(content, sheets) ==
    Set(content, DATA,
        Set(Get(content, DATA), TILESHEETS, Arr([i \in 1..Len(sheets) |-> Text(sheets[i])])))

\* What the image codec stores for a placeholder, and returns on reading.
pngOf(image) == Delete(image, PATH)

\* main.js 208-210: delete image.data; delete image.width; delete image.height
stripImage(image) == Delete(Delete(Delete(image, DATA), WIDTH), HEIGHT)

RECURSIVE writeImages(_, _, _)
\* main.js 193-211, the files it writes
writeImages(images, baseFile, fs) ==
    IF images = <<>> THEN fs
    ELSE writeImages(Tail(images), baseFile,
             SetPairs(fs, getImageName(baseFile, Get(Head(images), PATH).v), pngOf(Head(images))))

\* main.js 191-217, for the images extractImages returned in e
presaveImages(baseFile, data, fs, e) ==
    [err |-> "none",
     doc |-> [content |-> e.object,
              extractedImages |->
                  IF Len(e.images) > 0
                      THEN Arr([i \in 1..Len(e.images) |-> stripImage(e.images[i])])
                  ELSE data.extractedImages],
     files |-> writeImages(e.images, baseFile, fs)]

\* main.js 184-217, for the transcoder's final state t
presaveTranscoded(baseFile, data, fs, content, t) ==
    IF t.err # "none"
        THEN [err |-> t.err, doc |-> [data EXCEPT !.content = content], files |-> fs]
    ELSE presaveImages(baseFile, data, SetPairs(fs, tbinName(baseFile), Blob(t.out)),
                       extractImages(setTileSheets(content, t.sheets), <<>>))

\* main.js 113-217, for the result m of extractMap
presaveMap(baseFile, data, fs, m) ==
    IF m.err # "none" THEN [err |-> m.err, doc |-> data, files |-> fs]
    ELSE IF m.map.k = "undef"
        THEN presaveImages(baseFile, data, fs, extractImages(m.content, <<>>))
    ELSE presaveTranscoded(baseFile, data, fs, m.content, transcode(m.map.v))

\* The whole of onPresave. Returns [err, doc, files]; when it throws, doc is
\* the document as the pass left it and no file has been written.
onPresave(baseFile, data, fs) == presaveMap(baseFile, data, fs, extractMap(data.content))

\* container.data = png.data; container.width = png.width; container.height = png.height
assign(container, png) ==
    Set(Set(Set(container, DATA, Get(png, DATA)), WIDTH, Get(png, WIDTH)),
        HEIGHT, Get(png, HEIGHT))

\* main.js 282-284 on the value objectWalk returned. Returns [err, content,
\* proto]. The file is in strict mode: an assignment to a property of
\* undefined or of a primitive throws a TypeError.
reinject(content, walked, png, pr) ==
    IF walked.r = "throw" \/ walked.val.k \notin {"map", "arr", "blob", "builtin"}
        THEN [err |-> "TypeError", content |-> content, proto |-> pr]
    ELSE IF walked.val.k = "builtin"
        THEN [err |-> "none", content |-> content,
              proto |-> assign([k |-> "map", v |-> pr, x |-> <<>>], png).v]
    ELSE [err |-> "none", content |-> SetAt(content, walked.pos, assign(walked.val, png)),
          proto |-> pr]

RECURSIVE postloadLoop(_, _, _, _, _)
\* After one turn of the loop of main.js 274-285 with result r: the turns that follow
postloadNext(images, baseFile, fs, r) ==
    IF r.err # "none" THEN r
    ELSE postloadLoop(Tail(images), baseFile, r.content, fs, r.proto)

\* main.js 274-285. fs.readFileSync throws ENOENT when the sidecar is missing.
postloadLoop(images, baseFile, content, fs, pr) ==
    IF images = <<>> THEN [err |-> "none", content |-> content, proto |-> pr]
    ELSE IF ~HasKey(fs, getImageName(baseFile, Get(Head(images), PATH).v))
        THEN [err |-> "ENOENT", content |-> content, proto |-> pr]
    ELSE postloadNext(images, baseFile, fs,
             reinject(content, objectWalk(content, Get(Head(images), PATH).v, <<>>),
                      Lookup(fs, getImageName(baseFile, Get(Head(images), PATH).v)), pr))

\* The whole of onPostload. Returns [err, content, proto].
onPostload(baseFile, data, fs, pr) ==
    IF data.extractedImages.k = "undef"
        THEN [err |-> "none", content |-> data.content, proto |-> pr]
    ELSE postloadLoop(data.extractedImages.v, baseFile, data.content, fs, pr)

---------------------------------------------------------------------------
(* Inputs: value trees *)

\* Longest Array the generated trees hold.
MaxItems == 2

FORMAT == <<"f", "o", "r", "m", "a", "t">>

Tagged(t, x) == Map(<< <<TYPE, Str(t)>>, <<DATA, x>> >>)

\* A 2x1 texture as the container codec decodes it, and a 1x1 one.
TexA ==
    Tagged("Texture2D",
           Map(<< <<FORMAT, Num(0)>>, <<WIDTH, Num(2)>>, <<HEIGHT, Num(1)>>,
                  <<DATA, Blob(<<255, 0, 0, 255, 0, 255, 0, 255>>)>> >>))

TexB ==
    Tagged("Texture2D",
           Map(<< <<DATA, Blob(<<1, 2, 3, 4>>)>>, <<WIDTH, Num(1)>>, <<HEIGHT, Num(1)>> >>))

Leaves == {Num(7), TexA, TexB}

\* Field names: empty, plain, with a dot, the payload key, an index.
KeyNames == {<<>>, <<"a">>, <<"a", DOT, "b">>, DATA, <<"0">>}

Arrays(S) == {Arr(f) : f \in UNION {[1..m -> S] : m \in 1..MaxItems}}

Maps1(S) == {Map(<< <<key, x>> >>) : key \in KeyNames, x \in S}

Maps2(S, T) ==
    {Map(<< <<ks[1], x>>, <<ks[2], y>> >>) :
        ks \in {q \in KeyNames \X KeyNames : q[1] # q[2]}, x \in S, y \in T}

Level1 == Arrays(Leaves) \cup Maps1(Leaves) \cup Maps2(Leaves, Leaves)
          \cup {Tagged("T", x) : x \in Leaves}

Level2 == {Arr(<<x>>) : x \in Level1} \cup Maps1(Level1) \cup {Tagged("T", x) : x \in Level1}

\* Two fields, one of them a subtree: where two routes can spell one path.
Mixed ==
    {Map(<< <<ks[1], x>>, <<ks[2], y>> >>) :
        ks \in {<< <<>>, <<"a">> >>, << <<"a", DOT, "b">>, <<"a">> >>, << <<"a">>, <<"a", DOT, "b">> >>},
        x \in Level1, y \in Leaves}

\* A document's content is typically a tagged composite.
Level3 == {Tagged("T", x) : x \in Level2}

Trees == Leaves \cup Level1 \cup Level2 \cup Level3 \cup Mixed

---------------------------------------------------------------------------
(* Inputs: tilemap segments. A segment is described by                     *)
(*   id, props         the map's id string and its properties              *)
(*   sheets            the tilesets: id, img (image source), props         *)
(*   tail              the bytes after the last tileset                    *)
(*   cut               how many bytes are missing at the end (truncation)  *)
(* and encoded field by field in the order the transcoder reads them; the  *)
(* description strings are empty and the 32 size bytes are 1..32.          *)
(***************************************************************************)

\* Most tilesets a generated segment holds.
MaxSheets == 2

RECURSIVE Flatten(_)
Flatten(ss) == IF ss = <<>> THEN <<>> ELSE Head(ss) \o Flatten(Tail(ss))

EncString(bytes) == int32LE(Len(bytes)) \o bytes

EncProperty(p) == EncString(p.key) \o <<p.tag>> \o p.val

EncProperties(ps) == int32LE(Len(ps)) \o Flatten([i \in 1..Len(ps) |-> EncProperty(ps[i])])

SizeBytes == [i \in 1..32 |-> i]

\* The fields of a tileset before, and after, its image source.
EncSheetHead(t) == EncString(t.id) \o EncString(<<>>)

EncSheetRest(t) == SizeBytes \o EncProperties(t.props)

EncTileSheet(t) == EncSheetHead(t) \o EncString(t.img) \o EncSheetRest(t)

EncHeader(sg) ==
    MAGIC \o EncString(sg.id) \o EncString(<<>>) \o EncProperties(sg.props)
    \o int32LE(Len(sg.sheets))

EncSegment(sg) ==
    LET all == EncHeader(sg) \o Flatten([i \in 1..Len(sg.sheets) |-> EncTileSheet(sg.sheets[i])])
               \o sg.tail
    IN SubSeq(all, 1, Len(all) - sg.cut)

BoolProp == [key |-> <<>>, tag |-> 0, val |-> <<1>>]
IntProp == [key |-> <<107>>, tag |-> 1, val |-> <<7, 0, 0, 0>>]
FloatProp == [key |-> <<107>>, tag |-> 2, val |-> <<0, 0, 128, 63>>]
StringProp == [key |-> <<107, 50>>, tag |-> 3, val |-> EncString(<<118>>)]
\* A property whose tag byte is 5, with no value bytes.
UnknownProp == [key |-> <<>>, tag |-> 5, val |-> <<>>]

MapProps ==
    {<<>>, <<BoolProp>>, <<IntProp>>, <<FloatProp>>, <<StringProp>>, <<UnknownProp>>,
     <<StringProp, BoolProp>>}

SheetProps == {<<>>, <<StringProp>>, <<UnknownProp>>}

\* Image sources: "tiles", "" and two that are not ASCII: the UTF-8
\* encoding of U+00E9, and the lone byte 0xE9.
ImageSources == {<<116, 105, 108, 101, 115>>, <<>>, <<195, 169>>, <<233>>}

Sheets == [id : {<<116>>}, img : ImageSources, props : SheetProps]

Segments ==
    [id : {<<>>, <<109>>},
     props : MapProps,
     sheets : UNION {[1..m -> Sheets] : m \in 0..MaxSheets},
     tail : {<<>>, <<9, 8, 7>>},
     cut : {0, 2}]

KnownTags(ps) == \A i \in 1..Len(ps) : ps[i].tag \in 0..3

\* Nothing missing, and every property tag one of 0, 1, 2, 3.
WellFormed(sg) ==
    /\ sg.cut = 0
    /\ KnownTags(sg.props)
    /\ \A i \in 1..Len(sg.sheets) : KnownTags(sg.sheets[i].props)

IsAscii(bytes) == \A i \in 1..Len(bytes) : bytes[i] < 128

MapDoc(sg) == Tagged("Map", Map(<< <<DATA, Blob(EncSegment(sg))>> >>))

---------------------------------------------------------------------------
(* What the claims speak of, defined from the tree alone *)

RECURSIVE TexturePositions(_, _)
\* The Texture2D nodes a depth-first traversal finds (Array elements in
\* index order, fields in enumeration order, nothing below a Texture2D
\* node), each as the sequence of own keys leading to it from the root.
TexturePositions(o, pos) ==
    IF isTexture2D(o) THEN <<pos>>
    ELSE IF isTypeObject(o) THEN TexturePositions(Get(o, DATA), Append(pos, DATA))
    ELSE IF o.k = "arr"
        THEN Flatten([i \in 1..Len(o.v) |-> TexturePositions(o.v[i], Append(pos, Dec(i - 1)))])
    ELSE IF o.k = "map"
        THEN Flatten([i \in 1..Len(o.v) |->
                 TexturePositions(Get(o, ForInKeys(o)[i]), Append(pos, ForInKeys(o)[i]))])
    ELSE <<>>

RECURSIVE AllPositions(_, _)
\* Every node of the tree, as the sequence of own keys leading to it.
AllPositions(o, pos) ==
    {pos} \cup
    (IF o.k = "arr"
        THEN UNION {AllPositions(o.v[i], Append(pos, Dec(i - 1))) : i \in 1..Len(o.v)}
     ELSE IF o.k = "map"
        THEN UNION {AllPositions(o.v[i][2], Append(pos, o.v[i][1])) : i \in 1..Len(o.v)}
     ELSE {})

RECURSIVE SegmentsOf(_, _)
\* The field names and indices on the way to a position: a step out of a
\* tagged composite into its payload contributes none.
SegmentsOf(o, pos) ==
    IF pos = <<>> THEN <<>>
    ELSE (IF isTypeObject(o) THEN <<>> ELSE <<Head(pos)>>)
         \o SegmentsOf(Get(o, Head(pos)), Tail(pos))

RECURSIVE PathOf(_)
\* Segments joined by single dots, with no leading dot.
PathOf(segs) ==
    IF segs = <<>> THEN <<>>
    ELSE IF PathOf(SubSeq(segs, 1, Len(segs) - 1)) = <<>> THEN segs[Len(segs)]
    ELSE PathOf(SubSeq(segs, 1, Len(segs) - 1)) \o <<DOT>> \o segs[Len(segs)]

\* The paths that address a node of the tree.
NodePaths(o) == {PathOf(SegmentsOf(o, pos)) : pos \in AllPositions(o, <<>>)}

KeySet(o) == {Props(o)[i][1] : i \in 1..Len(Props(o))}

RECURSIVE SameTree(_, _)
\* Equality of trees that ignores the order of a mapping's fields.
SameTree(a, b) ==
    /\ a.k = b.k
    /\ KeySet(a) = KeySet(b)
    /\ \A key \in KeySet(a) : SameTree(Get(a, key), Get(b, key))
    /\ IF a.k = "arr"
           THEN Len(a.v) = Len(b.v) /\ \A i \in 1..Len(a.v) : SameTree(a.v[i], b.v[i])
       ELSE IF a.k = "map" THEN TRUE
       ELSE a.v = b.v

Found == TexturePositions(orig, <<>>)

Images == IF doc.extractedImages.k = "arr" THEN doc.extractedImages.v ELSE <<>>

ImagePath(i) == Get(Images[i], PATH).v

IsTilemap(content) ==
    /\ Get(Get(content, DATA), DATA).k = "blob"
    /\ toStringUtf8(Get(Get(content, DATA), DATA).v, 0, 6) = MAGIC

---------------------------------------------------------------------------
(* Claims about extractImages and objectWalk, under SpecWalk *)

\* C8: the path recorded for a Texture2D node is the field names and
\* 0-based decimal indices on the way from the root to the node, joined by
\* single dots with no leading dot; tagged composites contribute no segment.
C8_PathIsSegmentsJoined ==
    pc \in {"extracted", "walked"} =>
        /\ Len(Images) = Len(Found)
        /\ \A i \in 1..Len(Found) : ImagePath(i) = PathOf(SegmentsOf(orig, Found[i]))

\* {type: T, data: {a: [Texture2D]}} has been walked and the path is "a.0".
C8_Witness ==
    /\ pc = "extracted"
    /\ orig = Tagged("T", Map(<< << <<"a">>, Arr(<<TexA>>) >> >>))
    /\ Len(Images) = 1
    /\ ImagePath(1) = <<"a", DOT, "0">>

\* C7: every path extractImages records resolves through objectWalk to the
\* payload of the Texture2D node it was recorded for, whatever the field
\* names are.
C7_PathResolvesToItsNode ==
    pc = "walked" =>
        /\ Len(log) = Len(Found)
        /\ \A i \in 1..Len(Found) :
              log[i].r = "value" /\ log[i].pos = Append(Found[i], DATA)

---------------------------------------------------------------------------
(* The file job: a decoded document is saved (onPresave), its text may be  *)
(* edited, and it is loaded again (onPostload).                            *)
(***************************************************************************)

NoRun == [mode |-> "none", input |-> "none"]

NoSeg == [id |-> <<>>, props |-> <<>>, sheets |-> <<>>, tail |-> <<>>, cut |-> 0]

\* The literal tilemap of the specification's test, and one with two tilesets.
SegTiles ==
    [id |-> <<>>, props |-> <<>>, tail |-> <<9, 8, 7>>, cut |-> 0,
     sheets |-> <<[id |-> <<116>>, img |-> <<116, 105, 108, 101, 115>>, props |-> <<>>]>>]

\* What content.data.data can be besides a subtree: bytes, a number.
DataVals == {Blob(<<1, 2>>), Num(7)}

Contents ==
    {TexA, TexB}
    \cup {Tagged("T", x) : x \in Level1}
    \cup {Tagged("T", Map(<< <<DATA, x>> >>)) : x \in Level1 \cup Mixed \cup DataVals}
    \cup {MapDoc(SegTiles), MapDoc(NoSeg),
          Tagged("Map", Map(<< <<DATA, Blob(EncSegment(SegTiles))>>, <<<<"a">>, TexA>> >>))}

\* Paths an edited document may carry in a placeholder.
EditPaths == {<<"n">>, <<"n", DOT, "x">>, CONSTRUCTOR, LENGTH}

Init ==
    /\ pc = "decoded"
    /\ doc \in [content : Contents, extractedImages : {Undef}]
    /\ orig = doc.content
    /\ files = <<>>
    /\ proto = <<>>
    /\ err = "none"
    /\ seg = NoSeg
    /\ run = NoRun
    /\ batch = <<>>
    /\ idx = 0
    /\ log = <<>>

\* extractXnb's call of onPresave (main.js 44)
Presave ==
    /\ pc = "decoded"
    /\ LET r == onPresave(BASE, doc, files)
       IN /\ doc' = r.doc
          /\ files' = r.files
          /\ err' = r.err
          /\ pc' = IF r.err = "none" THEN "saved" ELSE "save_failed"
    /\ UNCHANGED <<orig, proto, seg, run, batch, idx, log>>

\* The text is edited: placeholder i gets the path p, and its sidecar is
\* renamed with it or not.
EditPath(i, p, rename) ==
    /\ pc = "saved"
    /\ doc.extractedImages.k = "arr"
    /\ i \in 1..Len(doc.extractedImages.v)
    /\ LET image == doc.extractedImages.v[i]
           old == getImageName(BASE, Get(image, PATH).v)
       IN /\ doc' = [doc EXCEPT !.extractedImages.v[i] = Set(image, PATH, Chars(p))]
          /\ files' = IF rename /\ HasKey(files, old)
                          THEN SetPairs(DelPairs(files, old), getImageName(BASE, p),
                                        Lookup(files, old))
                      ELSE files
    /\ pc' = "edited"
    /\ UNCHANGED <<orig, proto, err, seg, run, batch, idx, log>>

\* packXnb's call of onPostload (main.js 51)
Postload ==
    /\ pc \in {"saved", "edited"}
    /\ LET r == onPostload(BASE, doc, files, proto)
       IN /\ doc' = [doc EXCEPT !.content = r.content]
          /\ proto' = r.proto
          /\ err' = r.err
          /\ pc' = IF r.err = "none"
                       THEN (IF pc = "saved" THEN "loaded" ELSE "loaded_edited")
                   ELSE (IF pc = "saved" THEN "load_failed" ELSE "load_failed_edited")
    /\ UNCHANGED <<orig, files, seg, run, batch, idx, log>>

Next ==
    \/ Presave
    \/ \E i \in 1..3, p \in EditPaths, rename \in BOOLEAN : EditPath(i, p, rename)
    \/ Postload

Spec == Init /\ [][Next]_vars

---------------------------------------------------------------------------
(* Claims about the file job, under Spec *)

\* The payload of the i-th Texture2D node found, in the original tree and now.
OrigPayload(i) == GetAt(orig, Append(Found[i], DATA))

Payload(i) == GetAt(doc.content, Append(Found[i], DATA))

Stripped(i) ==
    /\ ~HasKey(Props(Payload(i)), DATA)
    /\ ~HasKey(Props(Payload(i)), WIDTH)
    /\ ~HasKey(Props(Payload(i)), HEIGHT)

\* C6 as amended: after onPresave returns, every Texture2D node found has
\* lost data, width and height, and extractedImages holds exactly one
\* placeholder per such node, in traversal order, carrying the node's path
\* and nothing else: data, width and height are all deleted from the
\* placeholder once its sidecar, named after the path, is written. With no
\* Texture2D node there is no extractedImages.
C6_PlaceholdersCarryPathOnly ==
    pc = "saved" =>
        /\ \A i \in 1..Len(Found) : Stripped(i)
        /\ Len(Images) = Len(Found)
        /\ Found = <<>> => doc.extractedImages = Undef
        /\ \A i \in 1..Len(Found) :
              /\ Images[i] = Map(<< <<PATH, Chars(PathOf(SegmentsOf(orig, Found[i])))>> >>)
              /\ HasKey(files, getImageName(BASE, ImagePath(i)))

\* C6 as stated: ... each placeholder carries the path together with the
\* node's original width and height.
C6_PlaceholdersCarryWidthHeight ==
    pc = "saved" =>
        /\ \A i \in 1..Len(Found) : Stripped(i)
        /\ Len(Images) = Len(Found)
        /\ \A i \in 1..Len(Found) :
              /\ ImagePath(i) = PathOf(SegmentsOf(orig, Found[i]))
              /\ Get(Images[i], WIDTH) = Get(OrigPayload(i), WIDTH)
              /\ Get(Images[i], HEIGHT) = Get(OrigPayload(i), HEIGHT)

\* A document with two Texture2D nodes has been saved.
C6_Witness == pc = "saved" /\ Len(Found) = 2 /\ Len(Images) = 2

\* C1: extraction followed by reinjection from the sidecars extraction wrote
\* yields the original tree: every Texture2D node has its data, width and
\* height again and no other node has changed.
C1_RoundTrip ==
    (pc \in {"loaded", "load_failed"} /\ Found # <<>>) => SameTree(doc.content, orig)

\* C2: for a document whose content.data.data starts with "tBIN10",
\* extraction followed by onPostload puts a tilemap blob back at
\* content.data.data.
C2_TilemapRestored ==
    (pc = "loaded" /\ IsTilemap(orig)) => IsTilemap(doc.content)

\* C9: with a placeholder whose path addresses no node of content,
\* onPostload does not complete (whatever the error is called).
C9_UnresolvedPathFails ==
    pc \in {"loaded", "loaded_edited"} =>
        \A i \in 1..Len(Images) : ImagePath(i) \in NodePaths(doc.content)

---------------------------------------------------------------------------
(* The tilemap transcoder alone: onPresave on a map document. *)

InitTbin ==
    /\ pc = "decoded"
    /\ seg \in Segments
    /\ doc = [content |-> MapDoc(seg), extractedImages |-> Undef]
    /\ orig = doc.content
    /\ files = <<>>
    /\ proto = <<>>
    /\ err = "none"
    /\ run = NoRun
    /\ batch = <<>>
    /\ idx = 0
    /\ log = <<>>

NextTbin == Presave

SpecTbin == InitTbin /\ [][NextTbin]_vars

---------------------------------------------------------------------------
(* Claims about the tilemap transcoder, under SpecTbin *)

In == EncSegment(seg)

\* The .tbin sidecar's bytes (none when it was not written).
Out == IF HasKey(files, tbinName(BASE)) THEN Lookup(files, tbinName(BASE)).v ELSE <<>>

\* content.data.tileSheets
TileSheetNames ==
    IF Get(Get(doc.content, DATA), TILESHEETS).k = "arr"
        THEN Get(Get(doc.content, DATA), TILESHEETS).v
    ELSE <<>>

\* n bytes of s after the first `from`, as far as s goes.
Slice(s, from, n) ==
    IF from < 0 \/ n <= 0 \/ from >= Len(s) THEN <<>>
    ELSE SubSeq(s, from + 1, IF from + n < Len(s) THEN from + n ELSE Len(s))

Int32At(s, from) == IF Len(Slice(s, from, 4)) = 4 THEN readInt32LE(Slice(s, from, 4)) ELSE 0

RECURSIVE FieldOffset(_)
\* Where tileset i's image-source field starts in the output: after the
\* header, the earlier tilesets (their image-source fields as long as the
\* output says) and the tileset's own id and description.
FieldOffset(i) ==
    IF i = 1 THEN Len(EncHeader(seg)) + Len(EncSheetHead(seg.sheets[1]))
    ELSE FieldOffset(i - 1) + 4 + Int32At(Out, FieldOffset(i - 1))
         + Len(EncSheetRest(seg.sheets[i - 1])) + Len(EncSheetHead(seg.sheets[i]))

AfterField(i) == FieldOffset(i) + 4 + Int32At(Out, FieldOffset(i))

\* The output without its image-source fields.
OutSkeleton ==
    IF seg.sheets = <<>> THEN Out
    ELSE Slice(Out, 0, FieldOffset(1))
         \o Flatten([i \in 1..Len(seg.sheets) |->
                Slice(Out, AfterField(i),
                      IF i < Len(seg.sheets) THEN FieldOffset(i + 1) - AfterField(i)
                      ELSE Len(Out))])

\* The input without its image-source fields.
InSkeleton ==
    EncHeader(seg)
    \o Flatten([i \in 1..Len(seg.sheets) |->
           EncSheetHead(seg.sheets[i]) \o EncSheetRest(seg.sheets[i])])
    \o seg.tail

AllAscii == \A i \in 1..Len(seg.sheets) : IsAscii(seg.sheets[i].img)

HasUnknownTag ==
    \/ ~KnownTags(seg.props)
    \/ \E i \in 1..Len(seg.sheets) : ~KnownTags(seg.sheets[i].props)

\* The image-source field as the claim has it written: length L + 4, the
\* bytes, ".png"; and the name recorded for it.
SourceRewritten(i) ==
    /\ Slice(Out, FieldOffset(i), 4 + Len(seg.sheets[i].img) + 4)
           = int32LE(Len(seg.sheets[i].img) + 4) \o seg.sheets[i].img \o PNG_SUFFIX
    /\ TileSheetNames[i] = Text(seg.sheets[i].img \o PNG_SUFFIX)

\* C4 as amended: for every tileset i of a well-formed segment whose
\* image-source bytes B are all 7-bit ASCII, the transcoder writes in the
\* field's place the length L + 4, the bytes B and ".png", and
\* tileSheetImageNames[i] is B followed by ".png", in tileset order.
C4_AsciiSourceRewritten ==
    (pc = "saved" /\ WellFormed(seg)) =>
        /\ Len(TileSheetNames) = Len(seg.sheets)
        /\ \A i \in 1..Len(seg.sheets) : IsAscii(seg.sheets[i].img) => SourceRewritten(i)

\* C4 as stated: the same for every image source, whatever its bytes.
C4_SourceRewritten ==
    (pc = "saved" /\ WellFormed(seg)) =>
        /\ Len(TileSheetNames) = Len(seg.sheets)
        /\ \A i \in 1..Len(seg.sheets) : SourceRewritten(i)

\* Two tilesets, the first with a source that is not ASCII, the second with
\* "tiles", have been transcoded.
C4_Witness ==
    /\ pc = "saved"
    /\ WellFormed(seg)
    /\ Len(seg.sheets) = 2
    /\ ~IsAscii(seg.sheets[1].img)
    /\ seg.sheets[2].img = <<116, 105, 108, 101, 115>>
    /\ TileSheetNames[2] = Text(<<116, 105, 108, 101, 115, 46, 112, 110, 103>>)

\* Every input byte outside the image-source fields is in the output once,
\* unchanged and in order, and the bytes after the last tileset end it.
PassedThrough ==
    /\ OutSkeleton = InSkeleton
    /\ Slice(Out, Len(Out) - Len(seg.tail), Len(seg.tail)) = seg.tail

\* C5 as amended: for every well-formed segment with m tilesets, every input
\* byte outside the m image-source fields appears in the output exactly
\* once, unchanged and in order, the bytes after the last tileset's
\* properties are the output's suffix, and the output is exactly 4*m bytes
\* longer than the input when every image source is 7-bit ASCII.
C5_PassThroughAsciiGrowth ==
    (pc = "saved" /\ WellFormed(seg)) =>
        /\ PassedThrough
        /\ AllAscii => Len(Out) = Len(In) + 4 * Len(seg.sheets)

\* C5 as stated: ... and the output is exactly 4*m bytes longer than the input.
C5_PassThroughGrowth ==
    (pc = "saved" /\ WellFormed(seg)) =>
        /\ PassedThrough
        /\ Len(Out) = Len(In) + 4 * Len(seg.sheets)

\* A segment with map properties, two tilesets with properties and three
\* trailing bytes has been transcoded.
C5_Witness ==
    /\ pc = "saved"
    /\ WellFormed(seg)
    /\ AllAscii
    /\ Len(seg.props) = 2
    /\ Len(seg.sheets) = 2
    /\ seg.sheets[2].props # <<>>
    /\ seg.tail = <<9, 8, 7>>
    /\ Len(Out) = Len(In) + 8

\* C3: a property whose tag byte is not 0, 1, 2 or 3 makes the transcoder
\* fail (whatever the error is called), and no .tbin sidecar is written.
C3_UnknownTagFails ==
    (pc # "decoded" /\ HasUnknownTag) =>
        (pc = "save_failed" /\ ~HasKey(files, tbinName(BASE)))

---------------------------------------------------------------------------
(* extractImages and objectWalk alone, on any tree. *)

InitWalk ==
    /\ pc = "tree"
    /\ doc \in [content : Trees, extractedImages : {Undef}]
    /\ orig = doc.content
    /\ files = <<>>
    /\ proto = <<>>
    /\ err = "none"
    /\ seg = NoSeg
    /\ run = NoRun
    /\ batch = <<>>
    /\ idx = 0
    /\ log = <<>>

\* images = extractImages(data.content)
ExtractImages ==
    /\ pc = "tree"
    /\ LET r == extractImages(doc.content, <<>>)
       IN doc' = [content |-> r.object, extractedImages |-> Arr(r.images)]
    /\ pc' = "extracted"
    /\ UNCHANGED <<orig, files, proto, err, seg, run, batch, idx, log>>

\* container = objectWalk(data.content, image.path), for every image
ObjectWalk ==
    /\ pc = "extracted"
    /\ log' = [i \in 1..Len(doc.extractedImages.v) |->
                  objectWalk(doc.content, Get(doc.extractedImages.v[i], PATH).v, <<>>)]
    /\ pc' = "walked"
    /\ UNCHANGED <<doc, orig, files, proto, err, seg, run, batch, idx>>

NextWalk == ExtractImages \/ ObjectWalk

SpecWalk == InitWalk /\ [][NextWalk]_vars

---------------------------------------------------------------------------
(* The driver applyOrRecurse (main.js 57-104) over the files of a batch.   *)
(* A file is named by its kind:                                            *)
(*   "texture"    .xnb, a Texture2D document                               *)
(*   "map"        .xnb, a tilemap document                                 *)
(*   "truncated"  .xnb, a tilemap document whose segment is cut short      *)
(*   "list"       .xnb, a document whose content.data.data is undefined    *)
(*   "saved"      .yaml, a saved texture document beside its sidecar       *)
(*   "repathed"   .yaml, the same with the placeholder's path edited to    *)
(*                one that addresses no node, its sidecar renamed with it  *)
(*   "other"      a file with another extension                            *)
(***************************************************************************)

\* Most files the walked directory holds.
MaxFiles == 3

ExtractKinds == {"texture", "map", "truncated", "list", "other"}

PackKinds == {"saved", "repathed", "other"}

SegCut == [SegTiles EXCEPT !.tail = <<>>, !.cut = 2]

Decoded(content) == [content |-> content, extractedImages |-> Undef]

\* The i-th file's path, extension stripped (source and target alike).
BaseOf(i) == BASE \o Dec(i)

\* What converter.XnbToObject returns for an .xnb file of the kind.
XnbData(kind) ==
    IF kind = "texture" THEN Decoded(TexA)
    ELSE IF kind = "map" THEN Decoded(MapDoc(SegTiles))
    ELSE IF kind = "truncated" THEN Decoded(MapDoc(SegCut))
    ELSE Decoded(Tagged("T", Arr(<<TexA>>)))

\* What typeyaml.parse returns for a .yaml file of the kind: the document
\* onPresave left, its placeholder's path edited or not.
YamlData(kind, baseFile) ==
    IF kind = "saved" THEN onPresave(baseFile, Decoded(TexA), <<>>).doc
    ELSE [onPresave(baseFile, Decoded(TexA), <<>>).doc EXCEPT
              !.extractedImages.v[1] = Map(<< <<PATH, Chars(<<"n">>)>> >>)]

\* The sidecar beside a .yaml file of the kind.
YamlSidecars(kind, baseFile) ==
    IF kind = "saved" THEN onPresave(baseFile, Decoded(TexA), <<>>).files
    ELSE IF kind = "repathed" THEN << <<getImageName(baseFile, <<"n">>), pngOf(newImage(Get(TexA, DATA), <<"n">>))>> >>
    ELSE <<>>

Eligible(kind) == kind # "other"

\* main.js 40-46. Returns [err, files].
extractXnb(baseFile, kind, fs) ==
    IF onPresave(baseFile, XnbData(kind), fs).err # "none"
        THEN [err |-> onPresave(baseFile, XnbData(kind), fs).err, files |-> fs]
    ELSE [err |-> "none",
          files |-> SetPairs(onPresave(baseFile, XnbData(kind), fs).files,
                             baseFile \o <<DOT, "y", "a", "m", "l">>,
                             [k |-> "yaml", v |-> onPresave(baseFile, XnbData(kind), fs).doc,
                              x |-> <<>>])]

\* main.js 48-55. Returns [err, files].
packXnb(baseFile, kind, fs) ==
    IF onPostload(baseFile, YamlData(kind, baseFile), fs, <<>>).err # "none"
        THEN [err |-> onPostload(baseFile, YamlData(kind, baseFile), fs, <<>>).err, files |-> fs]
    ELSE [err |-> "none",
          files |-> SetPairs(fs, baseFile \o <<DOT, "x", "n", "b">>,
                             [k |-> "xnb",
                              v |-> onPostload(baseFile, YamlData(kind, baseFile), fs, <<>>).content,
                              x |-> <<>>])]

\* fn(sourceFile, targetFile) for the command's fn
job(mode, baseFile, kind, fs) ==
    IF mode = "extract" THEN extractXnb(baseFile, kind, fs) ELSE packXnb(baseFile, kind, fs)

\* main.js 57-69 around the job's result r: a ReadError is swallowed, any
\* other error is thrown again.
readErrorWrapper(r) ==
    IF r.err = "none" THEN "done"
    ELSE IF r.err = "ReadError" THEN "abandoned"
    ELSE "crashed"

RECURSIVE SidecarsOf(_, _)
SidecarsOf(kinds, i) ==
    IF i > Len(kinds) THEN <<>>
    ELSE YamlSidecars(kinds[i], BaseOf(i)) \o SidecarsOf(kinds, i + 1)

InitBatch ==
    /\ pc = "start"
    /\ run \in [mode : {"extract", "pack"}, input : {"missing", "file", "dir"}]
    /\ batch \in UNION {[1..n -> IF run.mode = "extract" THEN ExtractKinds ELSE PackKinds] :
                           n \in 0..MaxFiles}
    /\ run.input = "missing" => batch = <<>>
    /\ run.input = "file" => Len(batch) = 1
    /\ files = IF run.mode = "pack" THEN SidecarsOf(batch, 1) ELSE <<>>
    /\ idx = 0
    /\ log = <<>>
    /\ err = "none"
    /\ doc = Decoded(Undef)
    /\ orig = Undef
    /\ proto = <<>>
    /\ seg = NoSeg

\* What applying the wrapped fn to file i does to the driver's state.
Apply(i, after) ==
    /\ files' = job(run.mode, BaseOf(i), batch[i], files).files
    /\ err' = job(run.mode, BaseOf(i), batch[i], files).err
    /\ log' = Append(log, [outcome |-> readErrorWrapper(job(run.mode, BaseOf(i), batch[i], files)),
                           err |-> job(run.mode, BaseOf(i), batch[i], files).err])
    /\ pc' = IF readErrorWrapper(job(run.mode, BaseOf(i), batch[i], files)) = "crashed"
                 THEN "crashed"
             ELSE after

\* main.js 74-83: statSync throws ENOENT, which is reported
NotFound ==
    /\ pc = "start"
    /\ run.input = "missing"
    /\ pc' = "notfound"
    /\ UNCHANGED <<doc, orig, files, proto, err, seg, run, batch, idx, log>>

\* main.js 85-86: the input is a file
SingleFile ==
    /\ pc = "start"
    /\ run.input = "file"
    /\ Apply(1, "ended")
    /\ idx' = 1
    /\ UNCHANGED <<doc, orig, proto, seg, run, batch>>

\* main.js 87-88: the input is a directory
StartWalk ==
    /\ pc = "start"
    /\ run.input = "dir"
    /\ pc' = "walking"
    /\ UNCHANGED <<doc, orig, files, proto, err, seg, run, batch, idx, log>>

\* main.js 89-91: a file with another extension is passed over
SkipFile ==
    /\ pc = "walking"
    /\ idx < Len(batch)
    /\ ~Eligible(batch[idx + 1])
    /\ idx' = idx + 1
    /\ log' = Append(log, [outcome |-> "skipped", err |-> "none"])
    /\ UNCHANGED <<pc, doc, orig, files, proto, err, seg, run, batch>>

\* main.js 89-102: the walker's 'file' event for an .xnb or .yaml file.
\* When fn throws, next() is not called and the exception leaves the handler.
FileEvent ==
    /\ pc = "walking"
    /\ idx < Len(batch)
    /\ Eligible(batch[idx + 1])
    /\ Apply(idx + 1, "walking")
    /\ idx' = idx + 1
    /\ UNCHANGED <<doc, orig, proto, seg, run, batch>>

\* The walker has no file left.
WalkEnd ==
    /\ pc = "walking"
    /\ idx = Len(batch)
    /\ pc' = "ended"
    /\ UNCHANGED <<doc, orig, files, proto, err, seg, run, batch, idx, log>>

NextBatch == NotFound \/ SingleFile \/ StartWalk \/ SkipFile \/ FileEvent \/ WalkEnd

SpecBatch == InitBatch /\ [][NextBatch]_vars

\* The placeholder of file i carries a path that addresses no node.
UnresolvedPath(i) ==
    /\ run.mode = "pack"
    /\ Eligible(batch[i])
    /\ \E j \in 1..Len(YamlData(batch[i], BaseOf(i)).extractedImages.v) :
          Get(YamlData(batch[i], BaseOf(i)).extractedImages.v[j], PATH).v
              \notin NodePaths(YamlData(batch[i], BaseOf(i)).content)

\* C10: a ReadError or a path that does not resolve, raised while one file
\* of a batch is processed, aborts only that file's job: it never ends the run.
C10_FailureNeverEndsRun ==
    \A i \in 1..Len(log) :
        (log[i].err = "ReadError" \/ (log[i].err # "none" /\ UnresolvedPath(i)))
            => log[i].outcome # "crashed"

====
